---- MODULE Spec2Model ----
(***************************************************************************)
(* Model of YarpSensorBridge::Impl (YarpSensorBridgeImpl.h): the           *)
(* configuration loaders that fill the bridge meta data and the attachment *)
(* strategies that bind device views from a PolyDriverList.                *)
(*                                                                         *)
(* A device handle of the PolyDriverList is a record                       *)
(*   [key, views, channels, names]                                         *)
(* key      : the PolyDriverDescriptor key                                 *)
(* views    : the interfaces poly->view() can obtain from the device       *)
(* channels : what getChannels() reports through IGenericSensor /          *)
(*            IAnalogSensor                                                *)
(* names    : the instance names a MAS interface enumerates, or the axis   *)
(*            names of a control board, in reporting order                 *)
(* An accessor (an interface pointer) is modelled by the handle whose view *)
(* it is; NullDevice stands for nullptr.                                   *)
(***************************************************************************)
EXTENDS Integers, Sequences, FiniteSets, TLC

VARIABLES
    metaData,                                 \* SensorBridgeMetaData metaData
    controlBoardRemapperInterfaces,           \* {encoders, axis}
    wholeBodyMASInertialsInterface,           \* {accelerometers, gyroscopes, magnetometers, orientationSensors}
    wholeBodyMASForceTorquesInterface,        \* {sixAxisFTSensors}
    wholeBodyAnalogIMUInterface,              \* key -> IGenericSensor
    wholeBodyCartesianWrenchInterface,        \* key -> IGenericSensor
    wholeBodyAnalogSixAxisFTSensorsInterface, \* key -> IAnalogSensor
    controlBoardRemapperMeasures,             \* {remappedJointIndices, jointPositions, jointVelocities}
    wholeBodyFrameGrabberInterface,           \* key -> IFrameGrabberImage
    wholeBodyRGBDInterface,                   \* key -> IRGBDSensor
    wholeBodyCameraImages,                    \* camera name -> <<rows, cols>> of its image buffer
    bridgeInitialized,                        \* bool bridgeInitialized
    driversAttached,                          \* bool driversAttached
    call                                      \* the last method run: its arguments and what it returned

vars == <<metaData, controlBoardRemapperInterfaces, wholeBodyMASInertialsInterface,
          wholeBodyMASForceTorquesInterface, wholeBodyAnalogIMUInterface,
          wholeBodyCartesianWrenchInterface, wholeBodyAnalogSixAxisFTSensorsInterface,
          controlBoardRemapperMeasures, wholeBodyFrameGrabberInterface,
          wholeBodyRGBDInterface, wholeBodyCameraImages, bridgeInitialized,
          driversAttached, call>>

\* the camera members, and the two flags read by checkValid
cameraInterfaces ==
    <<wholeBodyFrameGrabberInterface, wholeBodyRGBDInterface, wholeBodyCameraImages>>

readiness == <<bridgeInitialized, driversAttached>>

-----------------------------------------------------------------------------
(* Bounds of the model *)

\* longest configured name list
MaxSensors == 2

\* longest PolyDriverList handed to an attach method
MaxDevices == 2

\* attachment attempts on the control board after the configuration is loaded
MaxAttempts == 2

-----------------------------------------------------------------------------
(* Program constants *)

nrChannelsInYARPGenericIMUSensor == 12

nrChannelsInYARPGenericCartesianWrench == 6

nrChannelsInYARPAnalogSixAxisFTSensor == 6

-----------------------------------------------------------------------------
(* Values *)

SeqsUpTo(S, n) == UNION {[1..k -> S] : k \in 0..n}

Range(s) == {s[i] : i \in 1..Len(s)}

IsInjective(s) == \A i, j \in 1..Len(s) : s[i] = s[j] => i = j

NullDevice == [key |-> "", views |-> {}, channels |-> 0, names |-> <<>>]

EmptyMap == [k \in {} |-> NullDevice]

\* a std::vector parameter the handler may or may not hold
Absent == [present |-> FALSE, value |-> <<>>]

Given(v) == [present |-> TRUE, value |-> v]

Optional(S) == {Absent} \cup {Given(v) : v \in S}

\* an int parameter the handler may or may not hold
NoInt == [present |-> FALSE, value |-> 0]

OptionalInt(S) == {NoInt} \cup {[present |-> TRUE, value |-> v] : v \in S}

-----------------------------------------------------------------------------
(* Configuration: the parameters handler and the stream loaders *)

SensorNames == {"r_leg_ft", "r_foot_ft"}

NameLists == SeqsUpTo(SensorNames, MaxSensors)

\* IParametersHandler::getGroup: the group of the stream, never a null handler
getGroup(handler) == handler.group

configureCartesianWrenches(handler, md) ==
    IF ~handler.alive
    THEN [ok |-> FALSE, metaData |-> md]
    ELSE IF ~handler.cartesian_wrenches_list.present
    THEN [ok |-> FALSE, metaData |-> md]
    ELSE [ok |-> TRUE,
          metaData |-> [md EXCEPT !.sensorsList.cartesianWrenchesList =
                                      handler.cartesian_wrenches_list.value]]

configureSixAxisForceTorqueSensors(handler, md) ==
    IF ~handler.alive
    THEN [ok |-> FALSE, metaData |-> md]
    ELSE IF ~handler.sixaxis_forcetorque_sensors_list.present
    THEN [ok |-> FALSE, metaData |-> md]
    ELSE [ok |-> TRUE,
          metaData |-> [md EXCEPT !.sensorsList.sixAxisForceTorqueSensorsList =
                                      handler.sixaxis_forcetorque_sensors_list.value]]

\* the loader as it would be if joints_list were optional
configureJointsWithOptionalList(handler, md) ==
    IF ~handler.alive
    THEN [ok |-> FALSE, metaData |-> md]
    ELSE [ok |-> TRUE,
          metaData |-> [md EXCEPT !.sensorsList.jointsList = handler.joints_list.value,
                                  !.bridgeOptions.nrJoints = Len(handler.joints_list.value)]]

configureRemoteControlBoardRemapper(handler, md) ==
    IF ~handler.alive
    THEN [ok |-> FALSE, metaData |-> md]
    ELSE IF ~handler.joints_list.present
    THEN [ok |-> FALSE, metaData |-> md]
    ELSE [ok |-> TRUE,
          metaData |-> [md EXCEPT !.sensorsList.jointsList = handler.joints_list.value,
                                  !.bridgeOptions.nrJoints = Len(handler.joints_list.value)]]

\* (this->*loader)(groupHandler, metaData): loader names the member function
invokeLoader(loader, handler, md) ==
    CASE loader = "configureCartesianWrenches" -> configureCartesianWrenches(handler, md)
      [] loader = "configureRemoteControlBoardRemapper" ->
            configureRemoteControlBoardRemapper(handler, md)
      [] loader = "configureSixAxisForceTorqueSensors" ->
            configureSixAxisForceTorqueSensors(handler, md)

\* the loader run whenever the enable key is present, whatever its value
subConfigLoaderIgnoringValue(handler, loader, md, enableStreamFlag) ==
    IF ~handler.alive
    THEN [ok |-> FALSE, metaData |-> md]
    ELSE IF handler.enable.present
    THEN LET flag == handler.enable.value # 0
             md1 == [md EXCEPT !.bridgeOptions[enableStreamFlag] = flag]
             r == invokeLoader(loader, getGroup(handler), md1)
         IN  [ok |-> r.ok, metaData |-> r.metaData]
    ELSE [ok |-> TRUE, metaData |-> md]

\* enableStreamFlag names the member of metaData.bridgeOptions the caller passes
subConfigLoader(handler, loader, md, enableStreamFlag) ==
    IF ~handler.alive
    THEN [ok |-> FALSE, metaData |-> md]
    ELSE IF handler.enable.present
    THEN LET flag == handler.enable.value # 0
             md1 == [md EXCEPT !.bridgeOptions[enableStreamFlag] = flag]
         IN  IF flag
             THEN LET r == invokeLoader(loader, getGroup(handler), md1)
                  IN  [ok |-> r.ok, metaData |-> r.metaData]
             ELSE [ok |-> TRUE, metaData |-> md1]
    ELSE [ok |-> TRUE, metaData |-> md]

-----------------------------------------------------------------------------
(* Attachment of IGenericSensor / IAnalogSensor devices *)

\* PolyDriver::view(T*&)
view(device, T) == T \in device.views

MapPut(sensorMap, key, device) ==
    [k \in (DOMAIN sensorMap) \cup {key} |-> IF k = key THEN device ELSE sensorMap[k]]

RECURSIVE attachGenericOrAnalogSensorFrom(_, _, _, _, _, _)
attachGenericOrAnalogSensorFrom(devList, devIdx, sensorName, nrChannelsInSensor, sensorMap, SensorType) ==
    IF devIdx > Len(devList)
    THEN [ok |-> TRUE, map |-> sensorMap]
    ELSE IF sensorName # devList[devIdx].key
    THEN attachGenericOrAnalogSensorFrom(devList, devIdx + 1, sensorName,
                                         nrChannelsInSensor, sensorMap, SensorType)
    ELSE IF view(devList[devIdx], SensorType)
    THEN IF devList[devIdx].channels # nrChannelsInSensor
         THEN [ok |-> FALSE, map |-> sensorMap]
         ELSE attachGenericOrAnalogSensorFrom(devList, devIdx + 1, sensorName, nrChannelsInSensor,
                                              MapPut(sensorMap, devList[devIdx].key, devList[devIdx]),
                                              SensorType)
    ELSE [ok |-> FALSE, map |-> sensorMap]

attachGenericOrAnalogSensor(devList, sensorName, nrChannelsInSensor, sensorMap, SensorType) ==
    attachGenericOrAnalogSensorFrom(devList, 1, sensorName, nrChannelsInSensor, sensorMap, SensorType)

\* the loop over sensorList, left at the first sensor that fails;
\* scanned counts the sensors attachGenericOrAnalogSensor was called for
RECURSIVE attachAllLoop(_, _, _, _, _, _)
attachAllLoop(devList, sensorMap, nrChannelsInSensor, sensorList, SensorType, i) ==
    IF i > Len(sensorList)
    THEN [ok |-> TRUE, map |-> sensorMap, scanned |-> i - 1]
    ELSE LET r == attachGenericOrAnalogSensor(devList, sensorList[i], nrChannelsInSensor,
                                              sensorMap, SensorType)
         IN  IF ~r.ok
             THEN [ok |-> FALSE, map |-> r.map, scanned |-> i]
             ELSE attachAllLoop(devList, r.map, nrChannelsInSensor, sensorList, SensorType, i + 1)

\* the attachment without the final comparison of the map size with the list size
attachAllWithoutSizeCheck(devList, sensorMap, nrChannelsInSensor, sensorList, SensorType) ==
    attachAllLoop(devList, sensorMap, nrChannelsInSensor, sensorList, SensorType, 1)

attachAllGenericOrAnalogSensors(devList, sensorMap, nrChannelsInSensor, sensorList, SensorType) ==
    LET r == attachAllLoop(devList, sensorMap, nrChannelsInSensor, sensorList, SensorType, 1)
    IN  [ok |-> r.ok /\ Cardinality(DOMAIN r.map) = Len(sensorList),
         map |-> r.map,
         scanned |-> r.scanned]

attachCartesianWrenchInterface(devList, md, sensorMap) ==
    IF ~md.bridgeOptions.isCartesianWrenchEnabled
    THEN [ok |-> TRUE, map |-> sensorMap, scanned |-> 0]
    ELSE attachAllGenericOrAnalogSensors(devList, sensorMap,
                                         nrChannelsInYARPGenericCartesianWrench,
                                         md.sensorsList.cartesianWrenchesList,
                                         "IGenericSensor")

-----------------------------------------------------------------------------
(* State after construction *)

InitMetaData ==
    [sensorsList |->
        [jointsList |-> <<>>, IMUsList |-> <<>>, linearAccelerometersList |-> <<>>,
         gyroscopesList |-> <<>>, orientationSensorsList |-> <<>>, magnetometersList |-> <<>>,
         sixAxisForceTorqueSensorsList |-> <<>>, cartesianWrenchesList |-> <<>>,
         rgbCamerasList |-> <<>>, depthCamerasList |-> <<>>],
     bridgeOptions |->
        [isKinematicsEnabled |-> FALSE, isIMUEnabled |-> FALSE,
         isLinearAccelerometerEnabled |-> FALSE, isGyroscopeEnabled |-> FALSE,
         isOrientationSensorEnabled |-> FALSE, isMagnetometerEnabled |-> FALSE,
         isSixAxisForceTorqueSensorEnabled |-> FALSE, isCartesianWrenchEnabled |-> FALSE,
         isCameraEnabled |-> FALSE, nrJoints |-> 0, imgDimensions |-> EmptyMap]]

Init ==
    /\ metaData = InitMetaData
    /\ controlBoardRemapperInterfaces = [encoders |-> NullDevice, axis |-> NullDevice]
    /\ wholeBodyMASInertialsInterface =
           [accelerometers |-> NullDevice, gyroscopes |-> NullDevice,
            magnetometers |-> NullDevice, orientationSensors |-> NullDevice]
    /\ wholeBodyMASForceTorquesInterface = [sixAxisFTSensors |-> NullDevice]
    /\ wholeBodyAnalogIMUInterface = EmptyMap
    /\ wholeBodyCartesianWrenchInterface = EmptyMap
    /\ wholeBodyAnalogSixAxisFTSensorsInterface = EmptyMap
    /\ controlBoardRemapperMeasures =
           [remappedJointIndices |-> <<>>, jointPositions |-> <<>>, jointVelocities |-> <<>>]
    /\ wholeBodyFrameGrabberInterface = EmptyMap
    /\ wholeBodyRGBDInterface = EmptyMap
    /\ wholeBodyCameraImages = EmptyMap
    /\ bridgeInitialized = FALSE
    /\ driversAttached = FALSE
    /\ call = [op |-> "constructed"]

-----------------------------------------------------------------------------
(* Cartesian wrenches: configuration and attachment *)

\* the handler turns the stream on and its group lacks the list the loader requires
MissingList(handler, listParam) ==
    /\ handler.alive
    /\ handler.enable.present
    /\ handler.enable.value # 0
    /\ ~handler.group[listParam].present

WrenchHandlers ==
    [alive : BOOLEAN,
     enable : OptionalInt({0, 1}),
     group : [alive : {TRUE}, cartesian_wrenches_list : Optional(NameLists)]]

\* handles that attach as a cartesian wrench, handles of another channel count (a
\* generic IMU) and a handle that has the key but not the view
GenericDevices ==
    {[key |-> k, views |-> {"IGenericSensor"}, channels |-> c, names |-> <<>>] :
        k \in SensorNames,
        c \in {nrChannelsInYARPGenericCartesianWrench, nrChannelsInYARPGenericIMUSensor}}
    \cup {[key |-> "r_leg_ft", views |-> {}, channels |-> 0, names |-> <<>>]}

LoadCartesianWrenches ==
    \E handler \in WrenchHandlers :
        LET r == subConfigLoader(handler, "configureCartesianWrenches", metaData,
                                 "isCartesianWrenchEnabled")
        IN  /\ metaData' = r.metaData
            /\ call' = [op |-> "subConfigLoader", alive |-> handler.alive,
                        enable |-> handler.enable,
                        missing |-> MissingList(handler, "cartesian_wrenches_list"),
                        ok |-> r.ok]
            /\ UNCHANGED <<controlBoardRemapperInterfaces, wholeBodyMASInertialsInterface,
                           wholeBodyMASForceTorquesInterface, wholeBodyAnalogIMUInterface,
                           wholeBodyCartesianWrenchInterface,
                           wholeBodyAnalogSixAxisFTSensorsInterface,
                           controlBoardRemapperMeasures, cameraInterfaces, readiness>>

AttachCartesianWrenchInterface ==
    \E devList \in SeqsUpTo(GenericDevices, MaxDevices) :
        \E r \in {attachCartesianWrenchInterface(devList, metaData,
                                                 wholeBodyCartesianWrenchInterface)} :
            /\ wholeBodyCartesianWrenchInterface' = r.map
            /\ call' = [op |-> "attachCartesianWrenchInterface", devList |-> devList,
                        before |-> wholeBodyCartesianWrenchInterface,
                        scanned |-> r.scanned, ok |-> r.ok]
            /\ UNCHANGED <<metaData, controlBoardRemapperInterfaces,
                           wholeBodyMASInertialsInterface, wholeBodyMASForceTorquesInterface,
                           wholeBodyAnalogIMUInterface, wholeBodyAnalogSixAxisFTSensorsInterface,
                           controlBoardRemapperMeasures, cameraInterfaces, readiness>>

NextWrench == LoadCartesianWrenches \/ AttachCartesianWrenchInterface

SpecWrench == Init /\ [][NextWrench]_vars

\* the configuration is loaded once, before the first attachment attempt
LoadCartesianWrenchesOnce ==
    /\ call.op = "constructed"
    /\ LoadCartesianWrenches

NextWrenchRetry == LoadCartesianWrenchesOnce \/ AttachCartesianWrenchInterface

SpecWrenchRetry == Init /\ [][NextWrenchRetry]_vars

-----------------------------------------------------------------------------
(* Claims on the generic / legacy analog strategy *)

WrenchAttached ==
    /\ call.op = "attachCartesianWrenchInterface"
    /\ metaData.bridgeOptions.isCartesianWrenchEnabled

UniqueKeys(devList) ==
    \A i, j \in 1..Len(devList) : devList[i].key = devList[j].key => i = j

\* a handle that attaches as a sensor of the category
Attachable(device, SensorType, nrChannelsInSensor) ==
    /\ SensorType \in device.views
    /\ device.channels = nrChannelsInSensor

HasKey(devList, name) == \E d \in 1..Len(devList) : devList[d].key = name

\* C4: with an empty accessor map, pairwise-distinct expected names and unique
\* handle keys, the cartesian wrench attachment succeeds iff every expected name has
\* a handle of that key offering IGenericSensor with 6 channels; when the only defect
\* is an expected name without a handle, every name is scanned and the final
\* map-size check rejects the attachment.
C4_SuccessIffAllMatch ==
    (/\ WrenchAttached
     /\ call.before = EmptyMap
     /\ IsInjective(metaData.sensorsList.cartesianWrenchesList)
     /\ UniqueKeys(call.devList))
    => LET list == metaData.sensorsList.cartesianWrenchesList
           good(name) == \E d \in 1..Len(call.devList) :
                            /\ call.devList[d].key = name
                            /\ Attachable(call.devList[d], "IGenericSensor",
                                          nrChannelsInYARPGenericCartesianWrench)
           onlyMissing == /\ \E i \in 1..Len(list) : ~HasKey(call.devList, list[i])
                          /\ \A i \in 1..Len(list) :
                                HasKey(call.devList, list[i]) => good(list[i])
       IN  /\ call.ok <=> \A i \in 1..Len(list) : good(list[i])
           /\ onlyMissing =>
                 /\ ~call.ok
                 /\ call.scanned = Len(list)
                 /\ Cardinality(DOMAIN wholeBodyCartesianWrenchInterface) < Len(list)

C4_Witness ==
    /\ WrenchAttached
    /\ call.before = EmptyMap
    /\ Len(metaData.sensorsList.cartesianWrenchesList) = 2
    /\ IsInjective(metaData.sensorsList.cartesianWrenchesList)
    /\ UniqueKeys(call.devList)
    /\ Len(call.devList) = 2
    /\ call.ok

\* C5: the outcome of an attachment attempt and the bindings it leaves are those of
\* the same attempt run on an empty accessor map: they depend on the device list of
\* the attempt alone, not on earlier attempts.
C5_NoLeakageAcrossRetries ==
    call.op = "attachCartesianWrenchInterface"
    => LET fresh == attachCartesianWrenchInterface(call.devList, metaData, EmptyMap)
       IN  /\ call.ok = fresh.ok
           /\ wholeBodyCartesianWrenchInterface = fresh.map

\* C6: when a handle with the key of an expected name lacks the view or reports
\* another channel count, the attachment fails at the first such name, no later
\* name is scanned, and the accessor map is what it was before the call.
C6_FailFastNoPartialBinding ==
    (WrenchAttached /\ UniqueKeys(call.devList))
    => LET list == metaData.sensorsList.cartesianWrenchesList
           bad(i) == \E d \in 1..Len(call.devList) :
                        /\ call.devList[d].key = list[i]
                        /\ ~Attachable(call.devList[d], "IGenericSensor",
                                       nrChannelsInYARPGenericCartesianWrench)
       IN  \A i \in 1..Len(list) :
              (bad(i) /\ \A j \in 1..(i - 1) : ~bad(j))
              => /\ ~call.ok
                 /\ call.scanned = i
                 /\ wholeBodyCartesianWrenchInterface = call.before

-----------------------------------------------------------------------------
(* Joints: configuration, control board attachment and joint remapping *)

JointNames == {"r_hip_pitch", "r_knee"}

JointLists == SeqsUpTo(JointNames, MaxSensors)

\* what PolyDriver::view(T*&) leaves in the pointer it is given
viewPtr(device, T) == IF view(device, T) THEN device ELSE NullDevice

\* the search loop of attachRemappedRemoteControlBoard: ok is carried from one
\* handle to the next, and a view is asked for only while ok holds
RECURSIVE viewControlBoardFrom(_, _, _, _)
viewControlBoardFrom(devList, devIdx, ok, interfaces) ==
    IF devIdx > Len(devList)
    THEN [ok |-> ok, interfaces |-> interfaces]
    ELSE LET dev == devList[devIdx]
             okAxis == ok /\ view(dev, "IAxisInfo")
             withAxis == IF ok
                         THEN [interfaces EXCEPT !.axis = viewPtr(dev, "IAxisInfo")]
                         ELSE interfaces
             okBoth == okAxis /\ view(dev, "IEncodersTimed")
             withBoth == IF okAxis
                         THEN [withAxis EXCEPT !.encoders = viewPtr(dev, "IEncodersTimed")]
                         ELSE withAxis
         IN  IF okBoth
             THEN [ok |-> TRUE, interfaces |-> withBoth]
             ELSE viewControlBoardFrom(devList, devIdx + 1, okBoth, withBoth)

Zeros(n) == [i \in 1..n |-> 0]

resetControlBoardBuffers(md, measures) ==
    [remappedJointIndices |-> Zeros(md.bridgeOptions.nrJoints),
     jointPositions |-> Zeros(md.bridgeOptions.nrJoints),
     jointVelocities |-> Zeros(md.bridgeOptions.nrJoints)]

\* getAxes() through the encoders, then getAxisName() of every axis
readControlBoardJoints(interfaces) ==
    [DOF \in 1..Len(interfaces.encoders.names) |->
        IF DOF <= Len(interfaces.axis.names) THEN interfaces.axis.names[DOF] ELSE ""]

\* inner loop: the first position (from 0) of the joint in the control board, -1 if none
RECURSIVE findJointFrom(_, _, _)
findJointFrom(controlBoardJoints, joint, DOF) ==
    IF DOF >= Len(controlBoardJoints)
    THEN -1
    ELSE IF joint = controlBoardJoints[DOF + 1]
    THEN DOF
    ELSE findJointFrom(controlBoardJoints, joint, DOF + 1)

RECURSIVE compareLoop(_, _, _, _, _)
compareLoop(jointsList, controlBoardJoints, indices, desiredDOF, jointFound) ==
    IF desiredDOF >= Len(jointsList)
    THEN [ok |-> jointFound, remappedJointIndices |-> indices]
    ELSE LET DOF == findJointFrom(controlBoardJoints, jointsList[desiredDOF + 1], 0)
         IN  IF DOF < 0
             THEN [ok |-> FALSE, remappedJointIndices |-> indices]
             ELSE compareLoop(jointsList, controlBoardJoints,
                              [indices EXCEPT ![desiredDOF + 1] = DOF],
                              desiredDOF + 1, TRUE)

\* the inner loop without its break: the last matching position is kept
compareLastMatch(md, controlBoardJoints, measures) ==
    LET jointsList == md.sensorsList.jointsList
        matches(i) == {DOF \in 0..(Len(controlBoardJoints) - 1) :
                          controlBoardJoints[DOF + 1] = jointsList[i]}
        last(i) == CHOOSE DOF \in matches(i) : \A other \in matches(i) : other <= DOF
    IN  [ok |-> Len(jointsList) > 0 /\ \A i \in 1..Len(jointsList) : matches(i) # {},
         measures |-> [measures EXCEPT !.remappedJointIndices =
                          [i \in 1..Len(measures.remappedJointIndices) |->
                              IF i <= Len(jointsList) /\ matches(i) # {}
                              THEN last(i) ELSE 0]]]

\* the outer loop without its return: a joint that is not found keeps index 0
compareSkipMissing(md, controlBoardJoints, measures) ==
    LET jointsList == md.sensorsList.jointsList
    IN  [ok |-> Len(jointsList) > 0,
         measures |-> [measures EXCEPT !.remappedJointIndices =
                          [i \in 1..Len(measures.remappedJointIndices) |->
                              IF i <= Len(jointsList)
                                 /\ findJointFrom(controlBoardJoints, jointsList[i], 0) >= 0
                              THEN findJointFrom(controlBoardJoints, jointsList[i], 0)
                              ELSE 0]]]

\* the comparison as it would be with jointFound starting true: an empty desired
\* list is accepted
compareVacuouslyTrue(md, controlBoardJoints, measures) ==
    LET r == compareLoop(md.sensorsList.jointsList, controlBoardJoints,
                         measures.remappedJointIndices, 0, TRUE)
    IN  [ok |-> r.ok,
         measures |-> [measures EXCEPT !.remappedJointIndices = r.remappedJointIndices]]

compareControlBoardJointsList(md, controlBoardJoints, measures) ==
    LET r == compareLoop(md.sensorsList.jointsList, controlBoardJoints,
                         measures.remappedJointIndices, 0, FALSE)
    IN  [ok |-> r.ok,
         measures |-> [measures EXCEPT !.remappedJointIndices = r.remappedJointIndices]]

\* compareControlBoardJointsList calls through both accessors
Unbound(interfaces) == interfaces.encoders = NullDevice \/ interfaces.axis = NullDevice

\* the attachment without the test of isKinematicsEnabled
attachControlBoardIgnoringFlag(devList, md, interfaces, measures, ub) ==
    LET search == viewControlBoardFrom(devList, 1, TRUE, interfaces)
        reset == resetControlBoardBuffers(md, measures)
        joints == IF Unbound(search.interfaces)
                  THEN ub.joints
                  ELSE readControlBoardJoints(search.interfaces)
        cmp == compareControlBoardJointsList(md, joints, reset)
    IN  IF ~search.ok
        THEN [ok |-> FALSE, crashed |-> FALSE, found |-> FALSE, compared |-> FALSE,
              controlBoardJoints |-> <<>>, interfaces |-> search.interfaces,
              measures |-> measures]
        ELSE [ok |-> cmp.ok, crashed |-> FALSE, found |-> TRUE, compared |-> TRUE,
              controlBoardJoints |-> joints, interfaces |-> search.interfaces,
              measures |-> cmp.measures]

\* ub: what a call through a null accessor does: the process dies, or the call
\* returns some joint names
attachRemappedRemoteControlBoard(devList, md, interfaces, measures, ub) ==
    IF ~md.bridgeOptions.isKinematicsEnabled
    THEN [ok |-> TRUE, crashed |-> FALSE, found |-> FALSE, compared |-> FALSE,
          controlBoardJoints |-> <<>>, interfaces |-> interfaces, measures |-> measures]
    ELSE LET search == viewControlBoardFrom(devList, 1, TRUE, interfaces)
             reset == resetControlBoardBuffers(md, measures)
             joints == IF Unbound(search.interfaces)
                       THEN ub.joints
                       ELSE readControlBoardJoints(search.interfaces)
             cmp == compareControlBoardJointsList(md, joints, reset)
         IN  IF ~search.ok
             THEN [ok |-> FALSE, crashed |-> FALSE, found |-> FALSE, compared |-> FALSE,
                   controlBoardJoints |-> <<>>, interfaces |-> search.interfaces,
                   measures |-> measures]
             ELSE IF Unbound(search.interfaces) /\ ub.crash
             THEN [ok |-> FALSE, crashed |-> TRUE, found |-> TRUE, compared |-> FALSE,
                   controlBoardJoints |-> <<>>, interfaces |-> search.interfaces,
                   measures |-> reset]
             ELSE [ok |-> cmp.ok, crashed |-> FALSE, found |-> TRUE, compared |-> TRUE,
                   controlBoardJoints |-> joints, interfaces |-> search.interfaces,
                   measures |-> cmp.measures]

JointsHandlers ==
    [alive : BOOLEAN,
     enable : OptionalInt({0, 1}),
     group : [alive : {TRUE}, joints_list : Optional(JointLists)]]

\* a remapped control board reporting its axis names
ControlBoards ==
    {[key |-> "controlboard", views |-> {"IAxisInfo", "IEncodersTimed"}, channels |-> 0,
      names |-> n] : n \in JointLists}

\* handles with one of the two views, or none
OtherDevices ==
    {[key |-> "device", views |-> v, channels |-> 0, names |-> <<>>] :
        v \in {{}, {"IAxisInfo"}, {"IEncodersTimed"}}}

IsControlBoard(device) == view(device, "IAxisInfo") /\ view(device, "IEncodersTimed")

InsertAt(s, p, e) ==
    [i \in 1..(Len(s) + 1) |-> IF i < p THEN s[i] ELSE IF i = p THEN e ELSE s[i - 1]]

\* the bridge "expects only one remotecontrolboard device attached to it": the
\* lists hold at most one handle with both views, at any position
ControlBoardDevLists ==
    SeqsUpTo(OtherDevices, MaxDevices)
    \cup UNION {{InsertAt(s, p, b) : p \in 1..(Len(s) + 1), b \in ControlBoards} :
                   s \in SeqsUpTo(OtherDevices, MaxDevices - 1)}

\* the position in the list of the first handle that offers both views, 0 if none
ControlBoardAt(devList) ==
    IF \E d \in 1..Len(devList) : IsControlBoard(devList[d])
    THEN CHOOSE d \in 1..Len(devList) :
            /\ IsControlBoard(devList[d])
            /\ \A e \in 1..(d - 1) : ~IsControlBoard(devList[e])
    ELSE 0

NoUB == [crash |-> FALSE, joints |-> <<>>]

UBOutcomes == {[crash |-> TRUE, joints |-> <<>>]}
              \cup {[crash |-> FALSE, joints |-> n] : n \in JointLists}

\* the joints stream is configured once, before the first attachment attempt
LoadRemoteControlBoardRemapper ==
    \E handler \in JointsHandlers :
        LET r == subConfigLoader(handler, "configureRemoteControlBoardRemapper", metaData,
                                 "isKinematicsEnabled")
        IN  /\ call.op = "constructed"
            /\ metaData' = r.metaData
            /\ call' = [op |-> "subConfigLoader",
                        missing |-> MissingList(handler, "joints_list"),
                        ok |-> r.ok]
            /\ UNCHANGED <<controlBoardRemapperInterfaces, wholeBodyMASInertialsInterface,
                           wholeBodyMASForceTorquesInterface, wholeBodyAnalogIMUInterface,
                           wholeBodyCartesianWrenchInterface,
                           wholeBodyAnalogSixAxisFTSensorsInterface,
                           controlBoardRemapperMeasures, cameraInterfaces, readiness>>

\* the attempts made so far, this one included
Attempt == IF call.op = "attachRemappedRemoteControlBoard" THEN call.attempt + 1 ELSE 1

AttachRemappedRemoteControlBoard ==
    /\ Attempt <= MaxAttempts
    /\ \E devList \in ControlBoardDevLists :
        LET search == viewControlBoardFrom(devList, 1, TRUE, controlBoardRemapperInterfaces)
            undefined == /\ metaData.bridgeOptions.isKinematicsEnabled
                         /\ search.ok
                         /\ Unbound(search.interfaces)
        IN  \E ub \in (IF undefined THEN UBOutcomes ELSE {NoUB}) :
              \E r \in {attachRemappedRemoteControlBoard(devList, metaData,
                                                         controlBoardRemapperInterfaces,
                                                         controlBoardRemapperMeasures, ub)} :
                    /\ controlBoardRemapperInterfaces' = r.interfaces
                    /\ controlBoardRemapperMeasures' = r.measures
                    /\ call' = [op |-> "attachRemappedRemoteControlBoard",
                                attempt |-> Attempt,
                                nrDevices |-> Len(devList),
                                controlBoardAt |-> ControlBoardAt(devList),
                                found |-> r.found, compared |-> r.compared,
                                controlBoardJoints |-> r.controlBoardJoints,
                                crashed |-> r.crashed, ok |-> r.ok]
                    /\ UNCHANGED <<metaData, wholeBodyMASInertialsInterface,
                                   wholeBodyMASForceTorquesInterface,
                                   wholeBodyAnalogIMUInterface,
                                   wholeBodyCartesianWrenchInterface,
                                   wholeBodyAnalogSixAxisFTSensorsInterface,
                                   cameraInterfaces, readiness>>

NextJoints == LoadRemoteControlBoardRemapper \/ AttachRemappedRemoteControlBoard

SpecJoints == Init /\ [][NextJoints]_vars

-----------------------------------------------------------------------------
(* Multiple analog sensor (MAS) interfaces *)

\* the loop of attachRemappedMASSensor: the first handle that offers the view
RECURSIVE attachRemappedMASSensorFrom(_, _, _, _)
attachRemappedMASSensorFrom(devList, devIdx, masSensorInterface, MASSensorType) ==
    IF devIdx > Len(devList)
    THEN [broken |-> FALSE, masSensorInterface |-> masSensorInterface]
    ELSE IF viewPtr(devList[devIdx], MASSensorType) = NullDevice
    THEN attachRemappedMASSensorFrom(devList, devIdx + 1, masSensorInterface, MASSensorType)
    ELSE [broken |-> TRUE, masSensorInterface |-> viewPtr(devList[devIdx], MASSensorType)]

\* masSensorInterface is a pointer passed by value: the field masSensorInterface of
\* the result is the callee's copy, which the caller never sees
attachRemappedMASSensor(devList, masSensorInterface, MASSensorType) ==
    LET r == attachRemappedMASSensorFrom(devList, 1, masSensorInterface, MASSensorType)
    IN  [ok |-> r.broken /\ r.masSensorInterface # NullDevice,
         masSensorInterface |-> r.masSensorInterface]

\* NullDevice stands for an accessor that no code has assigned. ub is what a call
\* through it does: the process dies (ub.crash), or the call returns and enumerates
\* ub.names
getAllSensorsInMASInterface(sensorInterface, ub) ==
    IF sensorInterface = NullDevice THEN ub.names ELSE sensorInterface.names

\* std::string operator< on the names of the model
NameOrder == <<"r_foot_ft", "r_leg_ft">>

NameRank(name) == CHOOSE i \in 1..Len(NameOrder) : NameOrder[i] = name

\* std::sort
RECURSIVE SortNames(_)
SortNames(s) ==
    IF Len(s) <= 1
    THEN s
    ELSE LET rest == SortNames(Tail(s))
             before == SelectSeq(rest, LAMBDA x : NameRank(x) < NameRank(Head(s)))
             after == SelectSeq(rest, LAMBDA x : NameRank(x) >= NameRank(Head(s)))
         IN  before \o <<Head(s)>> \o after

\* std::set_intersection on two sorted ranges, from positions i and j
RECURSIVE SetIntersectionFrom(_, _, _, _)
SetIntersectionFrom(a, i, b, j) ==
    IF i > Len(a) \/ j > Len(b)
    THEN <<>>
    ELSE IF NameRank(a[i]) < NameRank(b[j])
    THEN SetIntersectionFrom(a, i + 1, b, j)
    ELSE IF NameRank(b[j]) < NameRank(a[i])
    THEN SetIntersectionFrom(a, i, b, j + 1)
    ELSE <<a[i]>> \o SetIntersectionFrom(a, i + 1, b, j + 1)

set_intersection(a, b) == SetIntersectionFrom(a, 1, b, 1)

\* the split without the two sorts
splitWithoutSort(MASFTs, sensorsList) == set_intersection(MASFTs, sensorsList)

\* the names handed to the legacy analog strategy when the MAS interface is found
splitAnalogFTSensors(MASFTs, sensorsList) ==
    set_intersection(SortNames(MASFTs), SortNames(sensorsList))

\* the attachment that hands no name to the legacy strategy when no handle offers
\* the MAS interface
attachSixAxisFTDroppingList(devList, md, masInterface, sensorMap, ub) ==
    IF ~md.bridgeOptions.isSixAxisForceTorqueSensorEnabled
    THEN [ok |-> TRUE, crashed |-> FALSE, masFound |-> FALSE, MASFTs |-> <<>>,
          analogFTSensors |-> <<>>, map |-> sensorMap, scanned |-> 0]
    ELSE LET mas == attachRemappedMASSensor(devList, masInterface.sixAxisFTSensors,
                                            "ISixAxisForceTorqueSensors")
             MASFTs == getAllSensorsInMASInterface(masInterface.sixAxisFTSensors, ub)
             analogFTSensors ==
                 IF mas.ok
                 THEN splitAnalogFTSensors(MASFTs, md.sensorsList.sixAxisForceTorqueSensorsList)
                 ELSE <<>>
             r == attachAllGenericOrAnalogSensors(devList, sensorMap,
                                                  nrChannelsInYARPAnalogSixAxisFTSensor,
                                                  analogFTSensors, "IAnalogSensor")
         IN  IF mas.ok /\ masInterface.sixAxisFTSensors = NullDevice /\ ub.crash
             THEN [ok |-> FALSE, crashed |-> TRUE, masFound |-> TRUE, MASFTs |-> <<>>,
                   analogFTSensors |-> <<>>, map |-> sensorMap, scanned |-> 0]
             ELSE [ok |-> r.ok, crashed |-> FALSE, masFound |-> mas.ok,
                   MASFTs |-> IF mas.ok THEN MASFTs ELSE <<>>,
                   analogFTSensors |-> analogFTSensors, map |-> r.map, scanned |-> r.scanned]

attachAllSixAxisForceTorqueSensors(devList, md, masInterface, sensorMap, ub) ==
    IF ~md.bridgeOptions.isSixAxisForceTorqueSensorEnabled
    THEN [ok |-> TRUE, crashed |-> FALSE, masFound |-> FALSE, MASFTs |-> <<>>,
          analogFTSensors |-> <<>>, map |-> sensorMap, scanned |-> 0]
    ELSE LET mas == attachRemappedMASSensor(devList, masInterface.sixAxisFTSensors,
                                            "ISixAxisForceTorqueSensors")
             MASFTs == getAllSensorsInMASInterface(masInterface.sixAxisFTSensors, ub)
             analogFTSensors ==
                 IF mas.ok
                 THEN splitAnalogFTSensors(MASFTs, md.sensorsList.sixAxisForceTorqueSensorsList)
                 ELSE md.sensorsList.sixAxisForceTorqueSensorsList
             r == attachAllGenericOrAnalogSensors(devList, sensorMap,
                                                  nrChannelsInYARPAnalogSixAxisFTSensor,
                                                  analogFTSensors, "IAnalogSensor")
         IN  IF mas.ok /\ masInterface.sixAxisFTSensors = NullDevice /\ ub.crash
             THEN [ok |-> FALSE, crashed |-> TRUE, masFound |-> TRUE, MASFTs |-> <<>>,
                   analogFTSensors |-> <<>>, map |-> sensorMap, scanned |-> 0]
             ELSE [ok |-> r.ok, crashed |-> FALSE, masFound |-> mas.ok,
                   MASFTs |-> IF mas.ok THEN MASFTs ELSE <<>>,
                   analogFTSensors |-> analogFTSensors, map |-> r.map, scanned |-> r.scanned]

SixAxisFTHandlers ==
    [alive : BOOLEAN,
     enable : OptionalInt({0, 1}),
     group : [alive : {TRUE}, sixaxis_forcetorque_sensors_list : Optional(NameLists)]]

\* legacy six axis FT sensors, and analog sensors of another channel count
AnalogDevices ==
    {[key |-> k, views |-> {"IAnalogSensor"}, channels |-> c, names |-> <<>>] :
        k \in SensorNames,
        c \in {nrChannelsInYARPAnalogSixAxisFTSensor, nrChannelsInYARPGenericIMUSensor}}

\* a MAS remapper with the six axis FT interface, enumerating its sensors
MASFTDevices ==
    {[key |-> "mas_remapper", views |-> {"ISixAxisForceTorqueSensors"}, channels |-> 0,
      names |-> n] : n \in NameLists}

\* analog devices and at most one MAS remapper, at any position
SixAxisFTDevLists ==
    SeqsUpTo(AnalogDevices, MaxDevices)
    \cup UNION {{InsertAt(s, p, b) : p \in 1..(Len(s) + 1), b \in MASFTDevices} :
                   s \in SeqsUpTo(AnalogDevices, MaxDevices - 1)}

NoMASUB == [crash |-> FALSE, names |-> <<>>]

MASUBOutcomes == {[crash |-> TRUE, names |-> <<>>]}
                 \cup {[crash |-> FALSE, names |-> n] : n \in NameLists}

\* the first handle of the list that offers the view, NullDevice if there is none
FirstWithView(devList, T) ==
    IF \E d \in 1..Len(devList) : view(devList[d], T)
    THEN devList[CHOOSE d \in 1..Len(devList) :
                    /\ view(devList[d], T)
                    /\ \A e \in 1..(d - 1) : ~view(devList[e], T)]
    ELSE NullDevice

\* the six axis FT stream is configured once
LoadSixAxisForceTorqueSensors ==
    \E handler \in SixAxisFTHandlers :
        LET r == subConfigLoader(handler, "configureSixAxisForceTorqueSensors", metaData,
                                 "isSixAxisForceTorqueSensorEnabled")
        IN  /\ call.op = "constructed"
            /\ metaData' = r.metaData
            /\ call' = [op |-> "subConfigLoader",
                        missing |-> MissingList(handler, "sixaxis_forcetorque_sensors_list"),
                        ok |-> r.ok]
            /\ UNCHANGED <<controlBoardRemapperInterfaces, wholeBodyMASInertialsInterface,
                           wholeBodyMASForceTorquesInterface, wholeBodyAnalogIMUInterface,
                           wholeBodyCartesianWrenchInterface,
                           wholeBodyAnalogSixAxisFTSensorsInterface,
                           controlBoardRemapperMeasures, cameraInterfaces, readiness>>

\* one attachment on the freshly configured bridge
AttachAllSixAxisForceTorqueSensors ==
    /\ call.op = "subConfigLoader"
    /\ \E devList \in SixAxisFTDevLists :
        LET undefined ==
                /\ metaData.bridgeOptions.isSixAxisForceTorqueSensorEnabled
                /\ FirstWithView(devList, "ISixAxisForceTorqueSensors") # NullDevice
                /\ wholeBodyMASForceTorquesInterface.sixAxisFTSensors = NullDevice
        IN  \E ub \in (IF undefined THEN MASUBOutcomes ELSE {NoMASUB}) :
              \E r \in {attachAllSixAxisForceTorqueSensors(
                            devList, metaData, wholeBodyMASForceTorquesInterface,
                            wholeBodyAnalogSixAxisFTSensorsInterface, ub)} :
                    /\ wholeBodyAnalogSixAxisFTSensorsInterface' = r.map
                    /\ call' = [op |-> "attachAllSixAxisForceTorqueSensors",
                                devList |-> devList, masFound |-> r.masFound,
                                sensorsListBefore |->
                                    metaData.sensorsList.sixAxisForceTorqueSensorsList,
                                MASFTs |-> r.MASFTs, analogFTSensors |-> r.analogFTSensors,
                                crashed |-> r.crashed, ok |-> r.ok]
                    /\ UNCHANGED <<metaData, controlBoardRemapperInterfaces,
                                   wholeBodyMASInertialsInterface,
                                   wholeBodyMASForceTorquesInterface,
                                   wholeBodyAnalogIMUInterface,
                                   wholeBodyCartesianWrenchInterface,
                                   controlBoardRemapperMeasures, cameraInterfaces, readiness>>

NextSixAxisFT == LoadSixAxisForceTorqueSensors \/ AttachAllSixAxisForceTorqueSensors

SpecSixAxisFT == Init /\ [][NextSixAxisFT]_vars

-----------------------------------------------------------------------------
(* Inertial sensors *)

configureInertialSensors(handler, md) ==
    IF ~handler.alive
    THEN [ok |-> FALSE, metaData |-> md]
    ELSE LET load(m, param, list, flag) ==
                 IF handler[param].present
                 THEN [m EXCEPT !.sensorsList[list] = handler[param].value,
                                !.bridgeOptions[flag] = TRUE]
                 ELSE m
             md1 == load(md, "imu_list", "IMUsList", "isIMUEnabled")
             md2 == load(md1, "accelerometer_list", "linearAccelerometersList",
                         "isLinearAccelerometerEnabled")
             md3 == load(md2, "gyroscopes_list", "gyroscopesList", "isGyroscopeEnabled")
             md4 == load(md3, "orientation_sensors_list", "orientationSensorsList",
                         "isOrientationSensorEnabled")
             md5 == load(md4, "magnetometers_list", "magnetometersList",
                         "isMagnetometerEnabled")
         IN  [ok |-> TRUE, metaData |-> md5]

getNumberOfMASSensors(sensorInterface, ub) ==
    Len(getAllSensorsInMASInterface(sensorInterface, ub))

getMASSensorName(sensorInterface, sensIdx, ub) ==
    getAllSensorsInMASInterface(sensorInterface, ub)[sensIdx]

\* notAttached: the names the loop reports on the error stream; they do not change
\* the result
checkAttachedMASSensors(sensorInterface, sensorList, ub) ==
    LET nrSensors == getNumberOfMASSensors(sensorInterface, ub)
        sensorFound(masSensorName) ==
            \E attachedIdx \in 1..nrSensors :
                getMASSensorName(sensorInterface, attachedIdx, ub) = masSensorName
    IN  IF nrSensors # Len(sensorList)
        THEN [ok |-> FALSE, notAttached |-> {}]
        ELSE [ok |-> TRUE,
              notAttached |-> {n \in Range(sensorList) : ~sensorFound(n)}]

\* sensorInterface is the caller's member, copied: the view found by
\* attachRemappedMASSensor stays in the callee, the check reads the member's value
attachAndCheckMASSensors(devList, sensorInterface, sensorList, MASSensorType, ub) ==
    LET mas == attachRemappedMASSensor(devList, sensorInterface, MASSensorType)
        chk == checkAttachedMASSensors(sensorInterface, sensorList, ub)
    IN  IF ~mas.ok
        THEN [ok |-> FALSE, crashed |-> FALSE, found |-> FALSE, names |-> <<>>,
              notAttached |-> {}]
        ELSE IF sensorInterface = NullDevice /\ ub.crash
        THEN [ok |-> FALSE, crashed |-> TRUE, found |-> TRUE, names |-> <<>>,
              notAttached |-> {}]
        ELSE [ok |-> chk.ok, crashed |-> FALSE, found |-> TRUE,
              names |-> getAllSensorsInMASInterface(sensorInterface, ub),
              notAttached |-> chk.notAttached]

\* the MAS categories of attachAllInertials, in the order of the code
MASInertials ==
    <<[flag |-> "isLinearAccelerometerEnabled", member |-> "accelerometers",
       list |-> "linearAccelerometersList", type |-> "IThreeAxisLinearAccelerometers"],
      [flag |-> "isGyroscopeEnabled", member |-> "gyroscopes",
       list |-> "gyroscopesList", type |-> "IThreeAxisGyroscopes"],
      [flag |-> "isOrientationSensorEnabled", member |-> "orientationSensors",
       list |-> "orientationSensorsList", type |-> "IOrientationSensors"],
      [flag |-> "isMagnetometerEnabled", member |-> "magnetometers",
       list |-> "magnetometersList", type |-> "IThreeAxisMagnetometers"]>>

\* the four MAS blocks of attachAllInertials from block c on. attempted lists the
\* categories tried so far, checked those whose name check ran with the names it
\* enumerated, notAttached the <<category, name>> pairs reported on the error stream
RECURSIVE attachMASInertialsFrom(_, _, _, _, _, _, _, _)
attachMASInertialsFrom(devList, md, masInterface, ub, c, attempted, checked, notAttached) ==
    IF c > Len(MASInertials)
    THEN [ok |-> TRUE, crashed |-> FALSE, attempted |-> attempted, checked |-> checked,
          notAttached |-> notAttached]
    ELSE IF ~md.bridgeOptions[MASInertials[c].flag]
    THEN attachMASInertialsFrom(devList, md, masInterface, ub, c + 1, attempted, checked,
                                notAttached)
    ELSE LET cat == MASInertials[c]
             r == attachAndCheckMASSensors(devList, masInterface[cat.member],
                                           md.sensorsList[cat.list], cat.type, ub)
             tried == Append(attempted, cat.type)
             read == IF r.found /\ ~r.crashed
                     THEN Append(checked, [type |-> cat.type, names |-> r.names])
                     ELSE checked
             reported == notAttached \cup {<<cat.type, n>> : n \in r.notAttached}
         IN  IF r.ok
             THEN attachMASInertialsFrom(devList, md, masInterface, ub, c + 1, tried, read,
                                         reported)
             ELSE [ok |-> FALSE, crashed |-> r.crashed, attempted |-> tried,
                   checked |-> read, notAttached |-> reported]

\* attachAllInertials as it would be without the return after a failed IMU block
attachAllInertialsPastIMU(devList, md, masInterface, sensorMap, ub) ==
    LET imu == IF md.bridgeOptions.isIMUEnabled
               THEN attachAllGenericOrAnalogSensors(devList, sensorMap,
                                                    nrChannelsInYARPGenericIMUSensor,
                                                    md.sensorsList.IMUsList, "IGenericSensor")
               ELSE [ok |-> TRUE, map |-> sensorMap, scanned |-> 0]
        first == IF md.bridgeOptions.isIMUEnabled THEN <<"IMU">> ELSE <<>>
        mas == attachMASInertialsFrom(devList, md, masInterface, ub, 1, first, <<>>, {})
    IN  [ok |-> imu.ok /\ mas.ok, crashed |-> mas.crashed, attempted |-> mas.attempted,
         checked |-> mas.checked, notAttached |-> mas.notAttached, map |-> imu.map]

attachAllInertials(devList, md, masInterface, sensorMap, ub) ==
    LET imu == IF md.bridgeOptions.isIMUEnabled
               THEN attachAllGenericOrAnalogSensors(devList, sensorMap,
                                                    nrChannelsInYARPGenericIMUSensor,
                                                    md.sensorsList.IMUsList, "IGenericSensor")
               ELSE [ok |-> TRUE, map |-> sensorMap, scanned |-> 0]
        first == IF md.bridgeOptions.isIMUEnabled THEN <<"IMU">> ELSE <<>>
        mas == attachMASInertialsFrom(devList, md, masInterface, ub, 1, first, <<>>, {})
    IN  IF ~imu.ok
        THEN [ok |-> FALSE, crashed |-> FALSE, attempted |-> first, checked |-> <<>>,
              notAttached |-> {}, map |-> imu.map]
        ELSE [ok |-> mas.ok, crashed |-> mas.crashed, attempted |-> mas.attempted,
              checked |-> mas.checked, notAttached |-> mas.notAttached, map |-> imu.map]

\* the gyroscope list takes every bounded list; the other categories are present
\* with one name, or absent
OneSensorList == {<<"r_leg_ft">>}

InertialHandlers ==
    [alive : BOOLEAN,
     imu_list : Optional(OneSensorList),
     accelerometer_list : Optional(OneSensorList),
     gyroscopes_list : Optional(NameLists),
     orientation_sensors_list : Optional(OneSensorList),
     magnetometers_list : Optional(OneSensorList)]

IMUDevices ==
    {[key |-> "r_leg_ft", views |-> {"IGenericSensor"},
      channels |-> nrChannelsInYARPGenericIMUSensor, names |-> <<>>]}

MASInertialViews == {MASInertials[c].type : c \in 1..Len(MASInertials)}

\* a MAS remapper with every inertial interface, or with the gyroscopes only
MASInertialDevices ==
    {[key |-> "mas_remapper", views |-> v, channels |-> 0, names |-> n] :
        v \in {MASInertialViews, {"IThreeAxisGyroscopes"}}, n \in NameLists}

\* IMU devices and at most one MAS remapper, at any position
InertialDevLists ==
    SeqsUpTo(IMUDevices, MaxDevices)
    \cup UNION {{InsertAt(s, p, b) : p \in 1..(Len(s) + 1), b \in MASInertialDevices} :
                   s \in SeqsUpTo(IMUDevices, MaxDevices - 1)}

\* the inertial group of the configuration is read once
ConfigureInertialSensors ==
    \E handler \in InertialHandlers :
        LET r == configureInertialSensors(handler, metaData)
        IN  /\ call.op = "constructed"
            /\ metaData' = r.metaData
            /\ call' = [op |-> "configureInertialSensors", ok |-> r.ok]
            /\ UNCHANGED <<controlBoardRemapperInterfaces, wholeBodyMASInertialsInterface,
                           wholeBodyMASForceTorquesInterface, wholeBodyAnalogIMUInterface,
                           wholeBodyCartesianWrenchInterface,
                           wholeBodyAnalogSixAxisFTSensorsInterface,
                           controlBoardRemapperMeasures, cameraInterfaces, readiness>>

\* some enabled MAS category finds its view in devList while its accessor is null
ReadsNullMASInertial(devList, md, masInterface) ==
    \E c \in 1..Len(MASInertials) :
        /\ md.bridgeOptions[MASInertials[c].flag]
        /\ FirstWithView(devList, MASInertials[c].type) # NullDevice
        /\ masInterface[MASInertials[c].member] = NullDevice

\* one attachment on the freshly configured bridge
AttachAllInertials ==
    /\ call.op = "configureInertialSensors"
    /\ \E devList \in InertialDevLists :
        LET undefined == ReadsNullMASInertial(devList, metaData,
                                              wholeBodyMASInertialsInterface)
        IN  \E ub \in (IF undefined THEN MASUBOutcomes ELSE {NoMASUB}) :
              \E r \in {attachAllInertials(devList, metaData,
                                           wholeBodyMASInertialsInterface,
                                           wholeBodyAnalogIMUInterface, ub)} :
                    /\ wholeBodyAnalogIMUInterface' = r.map
                    /\ call' = [op |-> "attachAllInertials", devList |-> devList,
                                attempted |-> r.attempted, checked |-> r.checked,
                                notAttached |-> r.notAttached,
                                crashed |-> r.crashed, ok |-> r.ok]
                    /\ UNCHANGED <<metaData, controlBoardRemapperInterfaces,
                                   wholeBodyMASInertialsInterface,
                                   wholeBodyMASForceTorquesInterface,
                                   wholeBodyCartesianWrenchInterface,
                                   wholeBodyAnalogSixAxisFTSensorsInterface,
                                   controlBoardRemapperMeasures, cameraInterfaces, readiness>>

NextInertials == ConfigureInertialSensors \/ AttachAllInertials

SpecInertials == Init /\ [][NextInertials]_vars

-----------------------------------------------------------------------------
(* Cameras *)

\* the loop that records imgDimensions[cameraName] = (width[idx], height[idx])
RECURSIVE recordImgDimensions(_, _, _, _, _)
recordImgDimensions(imgDimensions, camerasList, width, height, idx) ==
    IF idx > Len(height)
    THEN imgDimensions
    ELSE recordImgDimensions(MapPut(imgDimensions, camerasList[idx],
                                    <<width[idx], height[idx]>>),
                             camerasList, width, height, idx + 1)

\* one camera block of configureCameras: getParameter fills the vector and returns
\* true when the parameter is present; the block returns false in that case.
\* error is the message written to the error stream, "" when there is none
configureCameraBlock(handler, md, listParam, widthParam, heightParam, list) ==
    IF ~handler[listParam].present
    THEN [ok |-> TRUE, error |-> "", metaData |-> md]
    ELSE LET md1 == [md EXCEPT !.sensorsList[list] = handler[listParam].value,
                               !.bridgeOptions.isCameraEnabled = TRUE]
             width == handler[widthParam].value
             height == handler[heightParam].value
             camerasList == md1.sensorsList[list]
         IN  IF handler[widthParam].present
             THEN [ok |-> FALSE, error |-> "Required parameter not available",
                   metaData |-> md1]
             ELSE IF handler[heightParam].present
             THEN [ok |-> FALSE, error |-> "Required parameter not available",
                   metaData |-> md1]
             ELSE IF Len(width) # Len(camerasList) \/ Len(height) # Len(camerasList)
             THEN [ok |-> FALSE, error |-> "Parameters list size mismatch",
                   metaData |-> md1]
             ELSE [ok |-> TRUE, error |-> "",
                   metaData |-> [md1 EXCEPT !.bridgeOptions.imgDimensions =
                                     recordImgDimensions(@, camerasList, width, height, 1)]]

configureCameras(handler, md) ==
    IF ~handler.alive
    THEN [ok |-> FALSE, error |-> "", metaData |-> md]
    ELSE LET rgb == configureCameraBlock(handler, md, "rgb_cameras_list",
                                         "rgb_image_width", "rgb_image_height",
                                         "rgbCamerasList")
         IN  IF ~rgb.ok
             THEN rgb
             ELSE configureCameraBlock(handler, rgb.metaData, "depth_cameras_list",
                                       "depth_image_width", "depth_image_height",
                                       "depthCamerasList")

RGBCameraNames == {"camera_l", "camera_r"}

\* the RGB block takes every bounded list; the depth block is present with one
\* camera, or absent, parameter by parameter
CameraHandlers ==
    [alive : BOOLEAN,
     rgb_cameras_list : Optional(SeqsUpTo(RGBCameraNames, MaxSensors)),
     rgb_image_width : Optional(SeqsUpTo({320, 640}, MaxSensors)),
     rgb_image_height : Optional(SeqsUpTo({240, 480}, MaxSensors)),
     depth_cameras_list : Optional({<<"depth">>}),
     depth_image_width : Optional({<<640>>}),
     depth_image_height : Optional({<<480>>})]

\* the camera group of the configuration is read once
ConfigureCameras ==
    \E handler \in CameraHandlers :
        LET r == configureCameras(handler, metaData)
        IN  /\ call.op = "constructed"
            /\ metaData' = r.metaData
            /\ call' = [op |-> "configureCameras", handler |-> handler, ok |-> r.ok,
                        error |-> r.error]
            /\ UNCHANGED <<controlBoardRemapperInterfaces, wholeBodyMASInertialsInterface,
                           wholeBodyMASForceTorquesInterface, wholeBodyAnalogIMUInterface,
                           wholeBodyCartesianWrenchInterface,
                           wholeBodyAnalogSixAxisFTSensorsInterface,
                           controlBoardRemapperMeasures, cameraInterfaces, readiness>>

SpecCameras == Init /\ [][ConfigureCameras]_vars

\* the loop of attachCamera: every handle keyed sensorName that offers the view is
\* stored, a later one over an earlier one
RECURSIVE attachCameraFrom(_, _, _, _, _)
attachCameraFrom(devList, devIdx, sensorName, sensorMap, CameraType) ==
    IF devIdx > Len(devList)
    THEN sensorMap
    ELSE IF sensorName # devList[devIdx].key
    THEN attachCameraFrom(devList, devIdx + 1, sensorName, sensorMap, CameraType)
    ELSE IF view(devList[devIdx], CameraType)
    THEN attachCameraFrom(devList, devIdx + 1, sensorName,
                          MapPut(sensorMap, devList[devIdx].key, devList[devIdx]),
                          CameraType)
    ELSE attachCameraFrom(devList, devIdx + 1, sensorName, sensorMap, CameraType)

\* view() returns true only with the pointer set, so the null test inside the loop
\* never fires and attachCamera returns true
attachCamera(devList, sensorName, sensorMap, CameraType) ==
    [ok |-> TRUE, map |-> attachCameraFrom(devList, 1, sensorName, sensorMap, CameraType)]

\* the loop of resizeImageBuffers from camera idx on; a buffer is modelled by its
\* <<rows, cols>>
RECURSIVE resizeImageBuffersFrom(_, _, _, _)
resizeImageBuffersFrom(camList, imgDimensionsMap, imgBuffersMap, idx) ==
    IF idx > Len(camList)
    THEN [ok |-> TRUE, imgBuffersMap |-> imgBuffersMap]
    ELSE IF camList[idx] \notin DOMAIN imgDimensionsMap
    THEN [ok |-> FALSE, imgBuffersMap |-> imgBuffersMap]
    ELSE resizeImageBuffersFrom(camList, imgDimensionsMap,
                                MapPut(imgBuffersMap, camList[idx],
                                       imgDimensionsMap[camList[idx]]),
                                idx + 1)

resizeImageBuffers(camList, imgDimensionsMap, imgBuffersMap) ==
    resizeImageBuffersFrom(camList, imgDimensionsMap, imgBuffersMap, 1)

\* the loop over camList of attachAllCamerasOfSpecificType
RECURSIVE attachCamerasLoop(_, _, _, _, _)
attachCamerasLoop(devList, camList, sensorMap, CameraType, i) ==
    IF i > Len(camList)
    THEN [ok |-> TRUE, map |-> sensorMap]
    ELSE LET r == attachCamera(devList, camList[i], sensorMap, CameraType)
         IN  IF ~r.ok
             THEN [ok |-> FALSE, map |-> r.map]
             ELSE attachCamerasLoop(devList, camList, r.map, CameraType, i + 1)

attachCamerasWithoutSizeCheck(devList, camList, imgDimensionsMap, sensorMap, imgBuffersMap, CameraType) ==
    LET r == attachCamerasLoop(devList, camList, sensorMap, CameraType, 1)
        b == resizeImageBuffers(camList, imgDimensionsMap, imgBuffersMap)
    IN  [ok |-> r.ok /\ b.ok, map |-> r.map, imgBuffersMap |-> b.imgBuffersMap]

attachAllCamerasOfSpecificType(devList, camList, imgDimensionsMap, sensorMap, imgBuffersMap, CameraType) ==
    LET r == attachCamerasLoop(devList, camList, sensorMap, CameraType, 1)
        b == resizeImageBuffers(camList, imgDimensionsMap, imgBuffersMap)
    IN  IF ~r.ok
        THEN [ok |-> FALSE, map |-> r.map, imgBuffersMap |-> imgBuffersMap]
        ELSE IF Cardinality(DOMAIN r.map) # Len(camList)
        THEN [ok |-> FALSE, map |-> r.map, imgBuffersMap |-> imgBuffersMap]
        ELSE [ok |-> b.ok, map |-> r.map, imgBuffersMap |-> b.imgBuffersMap]

attachAllCameras(devList, md, frameGrabbers, rgbds, images) ==
    IF ~md.bridgeOptions.isCameraEnabled
    THEN [ok |-> TRUE, frameGrabbers |-> frameGrabbers, rgbds |-> rgbds, images |-> images]
    ELSE LET rgb == attachAllCamerasOfSpecificType(devList, md.sensorsList.rgbCamerasList,
                                                   md.bridgeOptions.imgDimensions,
                                                   frameGrabbers, images,
                                                   "IFrameGrabberImage")
             depth == attachAllCamerasOfSpecificType(devList,
                                                     md.sensorsList.depthCamerasList,
                                                     md.bridgeOptions.imgDimensions,
                                                     rgbds, rgb.imgBuffersMap,
                                                     "IRGBDSensor")
         IN  IF ~rgb.ok
             THEN [ok |-> FALSE, frameGrabbers |-> rgb.map, rgbds |-> rgbds,
                   images |-> rgb.imgBuffersMap]
             ELSE [ok |-> depth.ok, frameGrabbers |-> rgb.map, rgbds |-> depth.map,
                   images |-> depth.imgBuffersMap]

ImgDimensions == {<<320, 240>>, <<640, 480>>}

\* the maps from some of the RGB camera names to image dimensions
ImgDimensionsMaps ==
    UNION {[names -> ImgDimensions] : names \in SUBSET RGBCameraNames}

\* handles keyed by a camera name, with the frame grabber view or with no view
RGBCameraDevices ==
    {[key |-> k, views |-> v, channels |-> 0, names |-> <<>>] :
        k \in RGBCameraNames, v \in {{"IFrameGrabberImage"}, {}}}

\* attachAllCamerasOfSpecificType<IFrameGrabberImage> applied once to the empty
\* members, its other arguments taken from the bounded sets
AttachAllCamerasOfSpecificType ==
    /\ call.op = "constructed"
    /\ \E camList \in SeqsUpTo(RGBCameraNames, MaxSensors),
          imgDimensionsMap \in ImgDimensionsMaps,
          devList \in SeqsUpTo(RGBCameraDevices, MaxDevices) :
          \E r \in {attachAllCamerasOfSpecificType(devList, camList, imgDimensionsMap,
                                                  wholeBodyFrameGrabberInterface,
                                                  wholeBodyCameraImages,
                                                  "IFrameGrabberImage")} :
                /\ wholeBodyFrameGrabberInterface' = r.map
                /\ wholeBodyCameraImages' = r.imgBuffersMap
                /\ call' = [op |-> "attachAllCamerasOfSpecificType", camList |-> camList,
                            imgDimensionsMap |-> imgDimensionsMap, devList |-> devList,
                            before |-> wholeBodyFrameGrabberInterface,
                            imagesBefore |-> wholeBodyCameraImages, ok |-> r.ok]
                /\ UNCHANGED <<metaData, controlBoardRemapperInterfaces,
                               wholeBodyMASInertialsInterface,
                               wholeBodyMASForceTorquesInterface,
                               wholeBodyAnalogIMUInterface,
                               wholeBodyCartesianWrenchInterface,
                               wholeBodyAnalogSixAxisFTSensorsInterface,
                               controlBoardRemapperMeasures, wholeBodyRGBDInterface,
                               readiness>>

SpecCamerasOfSpecificType == Init /\ [][AttachAllCamerasOfSpecificType]_vars

-----------------------------------------------------------------------------
(* Claims on the six axis FT split, the MAS accessors and the cameras *)

SixAxisFTAttached ==
    /\ call.op = "attachAllSixAxisForceTorqueSensors"
    /\ metaData.bridgeOptions.isSixAxisForceTorqueSensorEnabled

\* the MAS view attachRemappedMASSensor finds in the list of the last call
FoundSixAxisFT == FirstWithView(call.devList, "ISixAxisForceTorqueSensors")

\* C1: when the MAS six axis FT view is found and its enumeration returns the names
\* the found view reports, the names handed to the legacy analog strategy are the
\* configured names the view does not report
C1_LegacyGetsSetDifference ==
    (/\ SixAxisFTAttached
     /\ call.masFound
     /\ ~call.crashed
     /\ call.MASFTs = FoundSixAxisFT.names)
        => Range(call.analogFTSensors) =
               Range(metaData.sensorsList.sixAxisForceTorqueSensorsList)
                   \ Range(FoundSixAxisFT.names)

\* C9: after attachRemappedMASSensor succeeds for the six axis FT category, the stored
\* accessor is the view of the first handle that offers it, and the enumeration that
\* follows returns the names of that view
C9_AccessorBoundToFirstMatch ==
    (SixAxisFTAttached /\ call.masFound)
        => /\ wholeBodyMASForceTorquesInterface.sixAxisFTSensors = FoundSixAxisFT
           /\ ~call.crashed
           /\ call.MASFTs = FoundSixAxisFT.names

\* name has a handle in devList, and every handle of that key attaches as a legacy
\* six axis FT sensor
AttachesAsAnalogFT(devList, name) ==
    /\ HasKey(devList, name)
    /\ \A d \in 1..Len(devList) :
          devList[d].key = name
              => Attachable(devList[d], "IAnalogSensor",
                            nrChannelsInYARPAnalogSixAxisFTSensor)

Reorderings(s) ==
    {t \in [1..Len(s) -> Range(s)] :
        \A x \in Range(s) : Cardinality({i \in 1..Len(s) : t[i] = x})
                                 = Cardinality({i \in 1..Len(s) : s[i] = x})}

\* C15: when the MAS view is found, the names handed to the legacy strategy are the
\* same for every order of the enumerated names and every order of the configured
\* names, as a set they depend on the two sets of names alone, and the configured
\* list is left as it was
C15_SplitOrderIndependent ==
    (SixAxisFTAttached /\ call.masFound /\ ~call.crashed)
        => LET list == metaData.sensorsList.sixAxisForceTorqueSensorsList
           IN  /\ \A p \in Reorderings(call.MASFTs), q \in Reorderings(list) :
                     splitAnalogFTSensors(p, q) = call.analogFTSensors
               /\ Range(call.analogFTSensors) = Range(call.MASFTs) \cap Range(list)
               /\ list = call.sensorsListBefore

\* both lists hold the two names, in opposite orders
C15_Witness ==
    /\ SixAxisFTAttached
    /\ call.masFound
    /\ ~call.crashed
    /\ call.MASFTs = <<"r_leg_ft", "r_foot_ft">>
    /\ metaData.sensorsList.sixAxisForceTorqueSensorsList = <<"r_foot_ft", "r_leg_ft">>
    /\ call.analogFTSensors = <<"r_foot_ft", "r_leg_ft">>

GyroscopesChecked ==
    /\ call.op = "attachAllInertials"
    /\ \E i \in 1..Len(call.checked) : call.checked[i].type = "IThreeAxisGyroscopes"

\* the names the gyroscope check of the last call enumerated
GyroscopeNames ==
    call.checked[CHOOSE i \in 1..Len(call.checked) :
                     call.checked[i].type = "IThreeAxisGyroscopes"].names

\* C2: when the gyroscope category is enabled, its MAS view is found and enumerates
\* the names the found view reports, and an expected name is not among them,
\* attachAllInertials fails
C2_MissingNameFails ==
    (/\ GyroscopesChecked
     /\ GyroscopeNames = FirstWithView(call.devList, "IThreeAxisGyroscopes").names
     /\ \E n \in Range(metaData.sensorsList.gyroscopesList) : n \notin Range(GyroscopeNames))
        => ~call.ok

\* the gyroscope category of the last call was tried
GyroscopesAttempted ==
    /\ call.op = "attachAllInertials"
    /\ \E i \in 1..Len(call.attempted) : call.attempted[i] = "IThreeAxisGyroscopes"

\* C16: when the gyroscope category is tried, a handle of the list offers the
\* gyroscope view and that view reports exactly the expected names (one or more),
\* the process survives and the category attaches: attachAllInertials succeeds or
\* fails at a later category
C16_ExactNamesAttach ==
    (/\ GyroscopesAttempted
     /\ Len(metaData.sensorsList.gyroscopesList) >= 1
     /\ FirstWithView(call.devList, "IThreeAxisGyroscopes") # NullDevice
     /\ FirstWithView(call.devList, "IThreeAxisGyroscopes").names
            = metaData.sensorsList.gyroscopesList)
        => /\ ~call.crashed
           /\ \/ call.ok
              \/ call.attempted[Len(call.attempted)] # "IThreeAxisGyroscopes"

WellFormedRGB(handler) ==
    /\ handler.alive
    /\ handler.rgb_cameras_list.present
    /\ handler.rgb_image_width.present
    /\ handler.rgb_image_height.present
    /\ Len(handler.rgb_cameras_list.value) >= 1
    /\ IsInjective(handler.rgb_cameras_list.value)
    /\ Len(handler.rgb_image_width.value) = Len(handler.rgb_cameras_list.value)
    /\ Len(handler.rgb_image_height.value) = Len(handler.rgb_cameras_list.value)

\* C10: configureCameras accepts a handler whose RGB block is well formed (and that has
\* no depth block), records (width[i], height[i]) for camera i, and enables the
\* camera category
C10_WellFormedCamerasAccepted ==
    (/\ call.op = "configureCameras"
     /\ WellFormedRGB(call.handler)
     /\ ~call.handler.depth_cameras_list.present)
        => /\ call.ok
           /\ metaData.bridgeOptions.isCameraEnabled
           /\ \A i \in 1..Len(call.handler.rgb_cameras_list.value) :
                LET cameraName == call.handler.rgb_cameras_list.value[i]
                IN  /\ cameraName \in DOMAIN metaData.bridgeOptions.imgDimensions
                    /\ metaData.bridgeOptions.imgDimensions[cameraName] =
                           <<call.handler.rgb_image_width.value[i],
                             call.handler.rgb_image_height.value[i]>>

\* C11: when the RGB camera list comes with a width and a height list that are both
\* present and one of them differs in length from the camera list, configureCameras
\* fails and the error it reports is the list size mismatch
C11_MismatchReportedAsSizeMismatch ==
    (/\ call.op = "configureCameras"
     /\ call.handler.alive
     /\ call.handler.rgb_cameras_list.present
     /\ call.handler.rgb_image_width.present
     /\ call.handler.rgb_image_height.present
     /\ \/ Len(call.handler.rgb_image_width.value) # Len(call.handler.rgb_cameras_list.value)
        \/ Len(call.handler.rgb_image_height.value) # Len(call.handler.rgb_cameras_list.value))
        => /\ ~call.ok
           /\ call.error = "Parameters list size mismatch"

CamerasOfSpecificTypeAttached == call.op = "attachAllCamerasOfSpecificType"

\* C12: when some camera of the list has no entry in the image dimensions,
\* attachAllCamerasOfSpecificType fails and the image buffers are those of before the
\* call
C12_ValidationPrecedesAllocation ==
    (/\ CamerasOfSpecificTypeAttached
     /\ \E i \in 1..Len(call.camList) : call.camList[i] \notin DOMAIN call.imgDimensionsMap)
        => /\ ~call.ok
           /\ wholeBodyCameraImages = call.imagesBefore

\* a handle of the list of the last call has the key name and offers the frame
\* grabber view
HasFrameGrabber(name) ==
    \E d \in 1..Len(call.devList) :
        /\ call.devList[d].key = name
        /\ view(call.devList[d], "IFrameGrabberImage")

\* C13: on an empty accessor map, attachAllCamerasOfSpecificType succeeds only if every
\* camera of the list has a handle with an equal key that offers the view; otherwise
\* the map stays smaller than the list
C13_UnmatchedCameraRejected ==
    (/\ CamerasOfSpecificTypeAttached
     /\ call.before = EmptyMap
     /\ \E i \in 1..Len(call.camList) : ~HasFrameGrabber(call.camList[i]))
        => /\ ~call.ok
           /\ Cardinality(DOMAIN wholeBodyFrameGrabberInterface) < Len(call.camList)

\* a camera with a handle and one without, every camera with its dimensions
C13_Witness ==
    /\ CamerasOfSpecificTypeAttached
    /\ call.before = EmptyMap
    /\ ~call.ok
    /\ \E i, j \in 1..Len(call.camList) :
          /\ HasFrameGrabber(call.camList[i])
          /\ ~HasFrameGrabber(call.camList[j])
          /\ \E d \in 1..Len(call.devList) : call.devList[d].key = call.camList[j]
    /\ \A i \in 1..Len(call.camList) : call.camList[i] \in DOMAIN call.imgDimensionsMap

-----------------------------------------------------------------------------
(* Claims on the control board attachment and the joint remapping *)

JointsAttached ==
    /\ call.op = "attachRemappedRemoteControlBoard"
    /\ metaData.bridgeOptions.isKinematicsEnabled

\* C3: with joints enabled, whenever some handle of the device list offers both the
\* axis view and the encoder view, at whatever position, the search succeeds and
\* both accessors are bound to a handle offering both views.
C3_AnyPositionIsFound ==
    (JointsAttached /\ call.controlBoardAt > 0)
    => /\ call.found
       /\ IsControlBoard(controlBoardRemapperInterfaces.axis)
       /\ controlBoardRemapperInterfaces.encoders = controlBoardRemapperInterfaces.axis

\* C17: with joints enabled and no handle of the device list offering both the axis
\* view and the encoder view (the empty list included), the attachment fails without
\* reading the joint names or building the remap index: nothing is called through
\* an unbound accessor
C17_NoControlBoardFailsEarly ==
    (JointsAttached /\ call.controlBoardAt = 0)
    => /\ ~call.ok
       /\ ~call.found
       /\ ~call.compared
       /\ ~call.crashed

\* C7: when compareControlBoardJointsList succeeds, the remap index has one entry
\* per canonical joint, entry i is a position of the live joint list that holds the
\* name of canonical joint i, and it is the smallest such position; the live list is
\* the one the bound control board reports.
C7_RemapSelectsFirstMatch ==
    (JointsAttached /\ call.compared /\ call.ok)
    => LET jointsList == metaData.sensorsList.jointsList
           remap == controlBoardRemapperMeasures.remappedJointIndices
           live == call.controlBoardJoints
       IN  /\ Len(remap) = Len(jointsList)
           /\ ~Unbound(controlBoardRemapperInterfaces)
                 => live = controlBoardRemapperInterfaces.axis.names
           /\ \A i \in 1..Len(jointsList) :
                 /\ remap[i] \in 0..(Len(live) - 1)
                 /\ live[remap[i] + 1] = jointsList[i]
                 /\ \A DOF \in 0..(remap[i] - 1) : live[DOF + 1] # jointsList[i]

C7_Witness ==
    /\ JointsAttached
    /\ call.compared
    /\ call.ok
    /\ ~Unbound(controlBoardRemapperInterfaces)
    /\ metaData.sensorsList.jointsList = <<"r_knee", "r_hip_pitch">>
    /\ call.controlBoardJoints = <<"r_hip_pitch", "r_knee">>
    /\ controlBoardRemapperMeasures.remappedJointIndices = <<1, 0>>

\* C8: when a canonical joint is absent from the live joint list,
\* compareControlBoardJointsList fails and so does the attachment; the attachment
\* succeeds only after a comparison in which every canonical joint was found.
C8_AbsentJointFails ==
    JointsAttached
    => LET jointsList == metaData.sensorsList.jointsList
           absent == \E i \in 1..Len(jointsList) :
                        jointsList[i] \notin Range(call.controlBoardJoints)
       IN  /\ (call.compared /\ absent) => ~call.ok
           /\ call.ok => (call.compared /\ ~absent)

C8_Witness ==
    /\ JointsAttached
    /\ call.compared
    /\ ~Unbound(controlBoardRemapperInterfaces)
    /\ metaData.sensorsList.jointsList = <<"r_hip_pitch", "r_knee">>
    /\ call.controlBoardJoints = <<"r_hip_pitch">>
    /\ ~call.ok

-----------------------------------------------------------------------------
(* Readiness flags and the gated read surface *)

\* the gate as it would be with the attachment flag left out
checkValidIgnoringDrivers(initialized, attached) == initialized

checkValid(initialized, attached) ==
    IF ~(initialized /\ attached) THEN FALSE ELSE TRUE

\* configuration load of the bridge, followed on the cartesian wrench category: the
\* bridge is initialized when the load succeeds
initialize ==
    \E handler \in WrenchHandlers :
        \E r \in {subConfigLoader(handler, "configureCartesianWrenches", metaData,
                                  "isCartesianWrenchEnabled")} :
            /\ metaData' = r.metaData
            /\ bridgeInitialized' = r.ok
            /\ call' = [op |-> "initialize", ok |-> r.ok]
            /\ UNCHANGED <<controlBoardRemapperInterfaces, wholeBodyMASInertialsInterface,
                           wholeBodyMASForceTorquesInterface, wholeBodyAnalogIMUInterface,
                           wholeBodyCartesianWrenchInterface,
                           wholeBodyAnalogSixAxisFTSensorsInterface,
                           controlBoardRemapperMeasures, cameraInterfaces,
                           driversAttached>>

\* attachment of the device list: refused before initialization; the drivers are
\* attached when the attachment succeeds and the bridge is invalid when it fails
setDriversList ==
    \E devList \in SeqsUpTo(GenericDevices, MaxDevices) :
        IF ~bridgeInitialized
        THEN /\ call' = [op |-> "setDriversList", ok |-> FALSE]
             /\ UNCHANGED <<metaData, controlBoardRemapperInterfaces,
                            wholeBodyMASInertialsInterface,
                            wholeBodyMASForceTorquesInterface,
                            wholeBodyAnalogIMUInterface,
                            wholeBodyCartesianWrenchInterface,
                            wholeBodyAnalogSixAxisFTSensorsInterface,
                            controlBoardRemapperMeasures, cameraInterfaces, readiness>>
        ELSE \E r \in {attachCartesianWrenchInterface(devList, metaData,
                                                      wholeBodyCartesianWrenchInterface)} :
                /\ wholeBodyCartesianWrenchInterface' = r.map
                /\ driversAttached' = r.ok
                /\ call' = [op |-> "setDriversList", ok |-> r.ok]
                /\ UNCHANGED <<metaData, controlBoardRemapperInterfaces,
                               wholeBodyMASInertialsInterface,
                               wholeBodyMASForceTorquesInterface,
                               wholeBodyAnalogIMUInterface,
                               wholeBodyAnalogSixAxisFTSensorsInterface,
                               controlBoardRemapperMeasures, cameraInterfaces,
                               bridgeInitialized>>

\* a read of the gated surface: checkValid runs first and the buffer of the named
\* wrench is looked up only when it passes
getCartesianWrench ==
    \E wrenchName \in SensorNames :
        LET valid == checkValid(bridgeInitialized, driversAttached)
        IN  /\ call' = [op |-> "getCartesianWrench", valid |-> valid,
                        bufferRead |-> valid,
                        ok |-> valid /\ wrenchName \in DOMAIN wholeBodyCartesianWrenchInterface]
            /\ UNCHANGED <<metaData, controlBoardRemapperInterfaces,
                           wholeBodyMASInertialsInterface,
                           wholeBodyMASForceTorquesInterface,
                           wholeBodyAnalogIMUInterface,
                           wholeBodyCartesianWrenchInterface,
                           wholeBodyAnalogSixAxisFTSensorsInterface,
                           controlBoardRemapperMeasures, cameraInterfaces, readiness>>

NextBridge == initialize \/ setDriversList \/ getCartesianWrench

SpecBridge == Init /\ [][NextBridge]_vars

\* C18: checkValid passes iff bridgeInitialized and driversAttached are both true;
\* a gated read made while either flag is false (the initial state included) fails
\* and reads no buffer, and a gated read that reads a buffer was made with both
\* flags true.
C18_ReadsGatedByBothFlags ==
    /\ checkValid(bridgeInitialized, driversAttached)
          <=> (bridgeInitialized /\ driversAttached)
    /\ call.op = "getCartesianWrench"
          => /\ call.valid <=> (bridgeInitialized /\ driversAttached)
             /\ ~(bridgeInitialized /\ driversAttached)
                   => (~call.ok /\ ~call.bufferRead)
             /\ call.bufferRead => (bridgeInitialized /\ driversAttached)

\* a read refused after a successful configuration load, before any attachment
\* has succeeded
C18_Witness ==
    /\ call.op = "getCartesianWrench"
    /\ bridgeInitialized
    /\ ~driversAttached
    /\ ~call.ok
    /\ ~call.bufferRead

-----------------------------------------------------------------------------
(* Claims on the enable keys and on the disabled categories *)

\* C19: a load of the cartesian wrench stream from a valid handler whose enable key
\* is absent succeeds and leaves metaData as it was: the group loader is not run
\* and the enable flag is not written, so it is false after the first load of a
\* constructed bridge; a load whose enable key is present with the value 0
\* succeeds, leaves the flag false and does not run the group loader either.
C19_AbsentOrFalseKeyDisables ==
    [][(call'.op = "subConfigLoader" /\ call'.alive)
       => /\ ~call'.enable.present
                => /\ call'.ok
                   /\ metaData' = metaData
                   /\ call.op = "constructed"
                         => ~metaData'.bridgeOptions.isCartesianWrenchEnabled
          /\ (call'.enable.present /\ call'.enable.value = 0)
                => /\ call'.ok
                   /\ metaData' = [metaData EXCEPT
                                      !.bridgeOptions.isCartesianWrenchEnabled = FALSE]]_vars

\* the first load found the key with the value 0: the stream is disabled, no list
\* was read and the load succeeded
C19_Witness ==
    /\ call.op = "subConfigLoader"
    /\ call.alive
    /\ call.enable.present
    /\ call.enable.value = 0
    /\ call.ok
    /\ metaData = InitMetaData

-----------------------------------------------------------------------------
(* The four attachments on enabled and on disabled streams *)

\* the members of a stream as they are after construction
JointsUntouched ==
    /\ ~metaData.bridgeOptions.isKinematicsEnabled
    /\ metaData.sensorsList.jointsList = <<>>
    /\ controlBoardRemapperInterfaces = [encoders |-> NullDevice, axis |-> NullDevice]
    /\ controlBoardRemapperMeasures =
           [remappedJointIndices |-> <<>>, jointPositions |-> <<>>, jointVelocities |-> <<>>]

SixAxisFTUntouched ==
    /\ ~metaData.bridgeOptions.isSixAxisForceTorqueSensorEnabled
    /\ metaData.sensorsList.sixAxisForceTorqueSensorsList = <<>>
    /\ wholeBodyAnalogSixAxisFTSensorsInterface = EmptyMap

WrenchUntouched ==
    /\ ~metaData.bridgeOptions.isCartesianWrenchEnabled
    /\ metaData.sensorsList.cartesianWrenchesList = <<>>
    /\ wholeBodyCartesianWrenchInterface = EmptyMap

\* every member of the bridge but the record of the last call
members ==
    <<metaData, controlBoardRemapperInterfaces, wholeBodyMASInertialsInterface,
      wholeBodyMASForceTorquesInterface, wholeBodyAnalogIMUInterface,
      wholeBodyCartesianWrenchInterface, wholeBodyAnalogSixAxisFTSensorsInterface,
      controlBoardRemapperMeasures, cameraInterfaces, readiness>>

\* the streams share no member: a behaviour configures and attaches one stream,
\* the others staying as constructed, and calls the attachments of the others on
\* their disabled streams only
LoadWrenchStream ==
    /\ JointsUntouched
    /\ SixAxisFTUntouched
    /\ LoadCartesianWrenchesOnce

\* the cartesian wrench stream is loaded again after an attachment, from a
\* configuration that turns it off
TurnOffWrenchStream ==
    /\ call.op = "attachCartesianWrenchInterface"
    /\ JointsUntouched
    /\ SixAxisFTUntouched
    /\ \E handler \in {h \in WrenchHandlers :
                           h.alive /\ h.enable.present /\ h.enable.value = 0} :
          \E r \in {subConfigLoader(handler, "configureCartesianWrenches", metaData,
                                    "isCartesianWrenchEnabled")} :
              /\ metaData' = r.metaData
              /\ call' = [op |-> "subConfigLoader", alive |-> handler.alive,
                          enable |-> handler.enable,
                          missing |-> MissingList(handler, "cartesian_wrenches_list"),
                          ok |-> r.ok]
              /\ UNCHANGED <<controlBoardRemapperInterfaces,
                             wholeBodyMASInertialsInterface,
                             wholeBodyMASForceTorquesInterface,
                             wholeBodyAnalogIMUInterface,
                             wholeBodyCartesianWrenchInterface,
                             wholeBodyAnalogSixAxisFTSensorsInterface,
                             controlBoardRemapperMeasures, cameraInterfaces, readiness>>

\* one attachment after each load
AttachWrenchStream ==
    /\ call.op = "subConfigLoader"
    /\ JointsUntouched
    /\ SixAxisFTUntouched
    /\ AttachCartesianWrenchInterface

LoadJointsStream ==
    /\ SixAxisFTUntouched
    /\ WrenchUntouched
    /\ LoadRemoteControlBoardRemapper

\* the joints stream is loaded again after an attachment, from a configuration
\* that turns it off
TurnOffJointsStream ==
    /\ call.op = "attachRemappedRemoteControlBoard"
    /\ SixAxisFTUntouched
    /\ WrenchUntouched
    /\ \E handler \in {h \in JointsHandlers :
                           h.alive /\ h.enable.present /\ h.enable.value = 0} :
          \E r \in {subConfigLoader(handler, "configureRemoteControlBoardRemapper",
                                    metaData, "isKinematicsEnabled")} :
              /\ metaData' = r.metaData
              /\ call' = [op |-> "subConfigLoader",
                          missing |-> MissingList(handler, "joints_list"),
                          ok |-> r.ok]
              /\ UNCHANGED <<controlBoardRemapperInterfaces,
                             wholeBodyMASInertialsInterface,
                             wholeBodyMASForceTorquesInterface,
                             wholeBodyAnalogIMUInterface,
                             wholeBodyCartesianWrenchInterface,
                             wholeBodyAnalogSixAxisFTSensorsInterface,
                             controlBoardRemapperMeasures, cameraInterfaces, readiness>>

\* one attachment after each load
AttachJointsStream ==
    /\ call.op = "subConfigLoader"
    /\ SixAxisFTUntouched
    /\ WrenchUntouched
    /\ AttachRemappedRemoteControlBoard

LoadSixAxisFTStream ==
    /\ JointsUntouched
    /\ WrenchUntouched
    /\ LoadSixAxisForceTorqueSensors

AttachSixAxisFTStream ==
    /\ JointsUntouched
    /\ WrenchUntouched
    /\ AttachAllSixAxisForceTorqueSensors

\* no action of this specification configures the cameras: the stream keeps the
\* flag it has after construction
AttachAllCameras ==
    /\ JointsUntouched
    /\ SixAxisFTUntouched
    /\ WrenchUntouched
    /\ \E devList \in SeqsUpTo(RGBCameraDevices, MaxDevices) :
          \E r \in {attachAllCameras(devList, metaData, wholeBodyFrameGrabberInterface,
                                     wholeBodyRGBDInterface, wholeBodyCameraImages)} :
              /\ wholeBodyFrameGrabberInterface' = r.frameGrabbers
              /\ wholeBodyRGBDInterface' = r.rgbds
              /\ wholeBodyCameraImages' = r.images
              /\ call' = [op |-> "attachAllCameras", nrDevices |-> Len(devList),
                          ok |-> r.ok]
              /\ UNCHANGED <<metaData, controlBoardRemapperInterfaces,
                             wholeBodyMASInertialsInterface,
                             wholeBodyMASForceTorquesInterface,
                             wholeBodyAnalogIMUInterface,
                             wholeBodyCartesianWrenchInterface,
                             wholeBodyAnalogSixAxisFTSensorsInterface,
                             controlBoardRemapperMeasures, readiness>>

NextStreams ==
    \/ LoadWrenchStream
    \/ TurnOffWrenchStream
    \/ AttachWrenchStream
    \/ LoadJointsStream
    \/ TurnOffJointsStream
    \/ AttachJointsStream
    \/ LoadSixAxisFTStream
    \/ AttachSixAxisFTStream
    \/ AttachAllCameras

SpecStreams == Init /\ [][NextStreams]_vars

\* C20: an attachment called while its stream is disabled returns success, looks at
\* no handle of the device list (no control board is searched, no MAS interface is
\* looked for, no sensor name is scanned) and leaves every member of the bridge as
\* it was: accessors, accessor maps, remap index, measurement buffers, camera maps
\* and image buffers; this for attachRemappedRemoteControlBoard,
\* attachAllSixAxisForceTorqueSensors, attachCartesianWrenchInterface and
\* attachAllCameras.
C20_DisabledAttachmentIsNoOp ==
    [][/\ (/\ call'.op = "attachRemappedRemoteControlBoard"
           /\ ~metaData.bridgeOptions.isKinematicsEnabled)
          => /\ call'.ok
             /\ ~call'.found
             /\ ~call'.compared
             /\ ~call'.crashed
             /\ UNCHANGED members
       /\ (/\ call'.op = "attachAllSixAxisForceTorqueSensors"
           /\ ~metaData.bridgeOptions.isSixAxisForceTorqueSensorEnabled)
          => /\ call'.ok
             /\ ~call'.masFound
             /\ ~call'.crashed
             /\ call'.analogFTSensors = <<>>
             /\ UNCHANGED members
       /\ (/\ call'.op = "attachCartesianWrenchInterface"
           /\ ~metaData.bridgeOptions.isCartesianWrenchEnabled)
          => /\ call'.ok
             /\ call'.scanned = 0
             /\ UNCHANGED members
       /\ (/\ call'.op = "attachAllCameras"
           /\ ~metaData.bridgeOptions.isCameraEnabled)
          => /\ call'.ok
             /\ UNCHANGED members]_vars

\* the joints stream was attached to a control board, then turned off: the next
\* attachment, on a device list that is not empty, succeeds and the bound
\* accessors, the remap index and the buffers are still there
C20_Witness ==
    /\ call.op = "attachRemappedRemoteControlBoard"
    /\ ~metaData.bridgeOptions.isKinematicsEnabled
    /\ call.ok
    /\ call.nrDevices > 0
    /\ ~Unbound(controlBoardRemapperInterfaces)
    /\ controlBoardRemapperMeasures.remappedJointIndices # <<>>

\* C21: a load whose handler turns a stream on while the group of the stream has
\* no list key (joints_list, sixaxis_forcetorque_sensors_list,
\* cartesian_wrenches_list) is reported as failed by subConfigLoader.
C21_MissingListFailsLoad ==
    (call.op = "subConfigLoader" /\ call.missing) => ~call.ok

\* the joints stream was turned on without a joints_list: the load failed
C21_Witness ==
    /\ call.op = "subConfigLoader"
    /\ call.missing
    /\ ~call.ok
    /\ metaData.bridgeOptions.isKinematicsEnabled

\* C23: with the joints stream enabled and an empty canonical joint list, nrJoints
\* is 0 and attachRemappedRemoteControlBoard fails, also when a handle offering both
\* control board views was found and compared
C23_EmptyJointListFails ==
    (JointsAttached /\ metaData.sensorsList.jointsList = <<>>)
        => /\ metaData.bridgeOptions.nrJoints = 0
           /\ ~call.ok

C23_Witness ==
    /\ JointsAttached
    /\ metaData.sensorsList.jointsList = <<>>
    /\ call.found
    /\ call.compared
    /\ ~call.crashed
    /\ ~Unbound(controlBoardRemapperInterfaces)
    /\ call.controlBoardJoints = <<"r_hip_pitch", "r_knee">>
    /\ ~call.ok

\* the inertial categories in the order of attachAllInertials
InertialOrder ==
    <<[flag |-> "isIMUEnabled", type |-> "IMU", list |-> "IMUsList"]>> \o
    [c \in 1..Len(MASInertials) |->
        [flag |-> MASInertials[c].flag, type |-> MASInertials[c].type,
         list |-> MASInertials[c].list]]

\* the categories of InertialOrder from position i on whose flag is set in metaData
RECURSIVE EnabledInertialsFrom(_)
EnabledInertialsFrom(i) ==
    IF i > Len(InertialOrder)
    THEN <<>>
    ELSE IF metaData.bridgeOptions[InertialOrder[i].flag]
    THEN <<InertialOrder[i]>> \o EnabledInertialsFrom(i + 1)
    ELSE EnabledInertialsFrom(i + 1)

\* what the last attachment left of a category that succeeded: every IMU name has
\* its accessor; the sensors enumerated for a MAS category are as many as its list
InertialSucceeded(cat) ==
    IF cat.type = "IMU"
    THEN Range(metaData.sensorsList.IMUsList) \subseteq DOMAIN wholeBodyAnalogIMUInterface
    ELSE \E k \in 1..Len(call.checked) :
            /\ call.checked[k].type = cat.type
            /\ Len(call.checked[k].names) = Len(metaData.sensorsList[cat.list])

\* C24: the categories attachAllInertials tried are the enabled ones, in the order
\* IMU, linear accelerometers, gyroscopes, orientation sensors, magnetometers, up to
\* and including the first that failed; no disabled category is tried and none after
\* a failure; the call succeeds iff every enabled category was tried and succeeded.
C24_OrderedFailFast ==
    call.op = "attachAllInertials"
    => LET enabled == EnabledInertialsFrom(1)
           n == Len(call.attempted)
       IN  /\ n <= Len(enabled)
           /\ \A i \in 1..n : call.attempted[i] = enabled[i].type
           /\ \A i \in 1..(n - 1) : InertialSucceeded(enabled[i])
           /\ call.ok <=> (n = Len(enabled) /\ \A i \in 1..n : InertialSucceeded(enabled[i]))
           /\ ~call.ok => (n >= 1 /\ ~InertialSucceeded(enabled[n]))

\* the gyroscopes fail after the IMU and the accelerometers succeeded: the enabled
\* orientation sensors are not tried, the disabled magnetometers are skipped
C24_Witness ==
    /\ call.op = "attachAllInertials"
    /\ ~call.ok
    /\ ~call.crashed
    /\ call.attempted = <<"IMU", "IThreeAxisLinearAccelerometers", "IThreeAxisGyroscopes">>
    /\ metaData.bridgeOptions.isOrientationSensorEnabled
    /\ ~metaData.bridgeOptions.isMagnetometerEnabled

====
